---- MODULE Spec2Model ----
(***************************************************************************)
(* A model of src/services/supabaseAuthService.ts: the authentication      *)
(* facade over the identity provider (supabase.auth) and the profile       *)
(* store (the "users" table), with every await of the code as a point      *)
(* where other asynchronous work may run.                                  *)
(*                                                                         *)
(* Encoding of JavaScript values:                                          *)
(*   - an optional value is a set of at most one element: None is          *)
(*     undefined/null, Some(v) a defined value;                            *)
(*   - a string is a sequence of one-character strings, '' is << >>;       *)
(*   - a timestamp (an ISO string of new Date()) is the clock value;       *)
(*   - a row of the users table is a record over Columns, the id being     *)
(*     the key of the store; a payload is a record over some of Columns.   *)
(*                                                                         *)
(* The fields of a record are written in one order throughout, that of     *)
(* their first use in the module: it is the order TLC keeps them in.       *)
(***************************************************************************)
EXTENDS Integers, Sequences, FiniteSets, TLC

VARIABLES
    now,        \* the clock read by new Date()
    accounts,   \* identity provider: the identity of each registered id
    session,    \* identity provider: the id of the current session, if any
    store,      \* profile store: the row of each id that has one
    sub,        \* the subscription of onAuthChange: "none", "active", "unsubscribed"
    initq,      \* the initial getCurrentUser().then(callback) of onAuthChange
    handlers,   \* the event handlers suspended at an await
    events,     \* the events delivered to the subscription
    cbLog,      \* the invocations of the callback, in order
    op,         \* the facade operation in flight
    calls,      \* the number of facade operations called
    seen,       \* per id, the last getUserById without an error: the row, the result
    mapped,     \* the invocation of mapSupabaseUser that returned in the last step
    upserted,   \* the upsert an event handler issued in the last step
    last        \* the facade operation that returned in the last step, its result

vars == <<now, accounts, session, store, sub, initq, handlers, events, cbLog,
          op, calls, seen, mapped, upserted, last>>

(* ------------------------------ bounds -------------------------------- *)

\* Largest value of the clock.
MaxTime == 1
\* Number of facade operations called (onAuthChange is one) plus events
\* delivered to the subscription.
MaxWork == 2

(* ------------------------------ values -------------------------------- *)

None == {}
Some(v) == {v}
Get(o) == CHOOSE v \in o : TRUE

\* No facade operation in flight: an operation is its function fn, the await
\* pc it is at, and its arguments.
Idle == [fn |-> "idle", pc |-> "idle"]

\* What mapped, upserted and last hold after a step in which no invocation of
\* mapSupabaseUser returned, no handler upserted, no facade operation returned.
NoMap == [called |-> FALSE]
NoUpsert == [ev |-> 0]
NoResult == [fn |-> "none"]

Ids == {"u1", "u2"}

EmailA == <<"a", "@", "x">>
EmailB == <<"b", "@", "y">>
NameN == <<"N">>
NameB == <<"B">>
Photo == <<"p">>

Columns == {"email", "name", "photo_url", "role", "is_active",
            "subscription_end", "created_at", "last_login"}

\* A column of a new row that the insert does not name is null.
NullRow == [c \in Columns |-> None]

\* JavaScript truthiness of an optional string: undefined, null and '' are falsy.
Truthy(o) == o # None /\ Get(o) # << >>

\* a || b on optional strings.
Or(a, b) == IF Truthy(a) THEN a ELSE b

\* a || b on optional values that are never the empty string when defined
\* (a role, a timestamp).
OrElse(a, b) == IF a # None THEN a ELSE b

\* s.split('@')[0]: the characters before the first '@', all of s without one.
RECURSIVE LocalPart(_)
LocalPart(s) ==
    IF s = << >> \/ Head(s) = "@" THEN << >>
    ELSE <<Head(s)>> \o LocalPart(Tail(s))

\* email?.split('@')[0]
LocalPartOpt(e) == IF e = None THEN None ELSE Some(LocalPart(Get(e)))

\* The payload as serialised: a key whose value is undefined is not sent.
Defined(raw) == [c \in {k \in DOMAIN raw : raw[k] # None} |-> raw[c]]

(* --------------------------- profile store ---------------------------- *)

StoreOutcomes == {"ok", "error", "throws"}

\* upsert(payload) with conflict target id: insert, or on conflict set only the
\* payload's columns.
Upsert(st, id, payload) ==
    LET old == IF id \in DOMAIN st THEN st[id] ELSE NullRow
        new == [c \in Columns |-> IF c \in DOMAIN payload THEN payload[c] ELSE old[c]]
    IN [i \in (DOMAIN st) \cup {id} |-> IF i = id THEN new ELSE st[i]]

\* update(payload).eq('id', id): sets the payload's columns of the matching row,
\* no row matching is no error.
Update(st, id, payload) ==
    IF id \in DOMAIN st THEN Upsert(st, id, payload) ELSE st

\* select(...).eq('id', id).single(): the row, or an error when there is none.
Lookup(st, id, outcome) ==
    IF outcome = "ok" /\ id \in DOMAIN st
    THEN [status |-> "found", profile |-> Some(st[id])]
    ELSE [status |-> IF outcome = "throws" THEN "throws"
                     ELSE IF outcome = "error" THEN "error" ELSE "absent",
          profile |-> None]

(* -------------------------- mapSupabaseUser --------------------------- *)

\* The LocalUser of the branch taken when the lookup gave no profile.
DefaultUser(user, t) ==
    [id |-> user.id,
     email |-> Or(user.email, Some(<< >>)),
     name |-> Or(Or(user.full_name, LocalPartOpt(user.email)), Some(<< >>)),
     photoURL |-> Or(user.avatar_url, Some(<< >>)),
     role |-> "MEMBER",
     isActive |-> TRUE,
     subscriptionEnd |-> None,
     createdAt |-> user.created_at,
     lastLogin |-> Some(t)]

\* The LocalUser built from a stored profile.
MergedUser(user, profile, t) ==
    [id |-> user.id,
     email |-> Or(Or(profile.email, user.email), Some(<< >>)),
     name |-> Or(Or(profile.name, user.full_name), Some(<< >>)),
     photoURL |-> Or(Or(profile.photo_url, user.avatar_url), Some(<< >>)),
     role |-> Get(OrElse(profile.role, Some("MEMBER"))),
     isActive |-> IF profile.is_active = None THEN TRUE ELSE Get(profile.is_active),
     subscriptionEnd |-> profile.subscription_end,
     createdAt |-> profile.created_at,
     lastLogin |-> OrElse(profile.last_login, Some(t))]

\* The LocalUser of the catch block.
CaughtUser(user) ==
    [id |-> user.id,
     email |-> Or(user.email, Some(<< >>)),
     name |-> Or(user.full_name, Some(<< >>)),
     photoURL |-> Or(user.avatar_url, Some(<< >>)),
     role |-> "MEMBER",
     isActive |-> TRUE,
     subscriptionEnd |-> None,
     createdAt |-> None,
     lastLogin |-> None]

\* mapSupabaseUser without its catch block: a lookup that throws makes it
\* reject.
mapSupabaseUserNoCatch(user, res, t) ==
    IF user = None THEN [raised |-> FALSE, value |-> None]
    ELSE IF res.status = "throws" THEN [raised |-> TRUE, value |-> None]
    ELSE IF res.status = "found"
         THEN [raised |-> FALSE,
               value |-> Some(MergedUser(Get(user), Get(res.profile), t))]
    ELSE [raised |-> FALSE, value |-> Some(DefaultUser(Get(user), t))]

\* mapSupabaseUser(user) once its lookup has resolved to res at time t.
\* raised is whether the function itself rejects.
mapSupabaseUser(user, res, t) ==
    IF user = None THEN [raised |-> FALSE, value |-> None]
    ELSE IF res.status = "throws"
         THEN [raised |-> FALSE, value |-> Some(CaughtUser(Get(user)))]
    ELSE IF res.status = "found"
         THEN [raised |-> FALSE,
               value |-> Some(MergedUser(Get(user), Get(res.profile), t))]
    ELSE [raised |-> FALSE, value |-> Some(DefaultUser(Get(user), t))]

NoLookup == [status |-> "none", profile |-> None]

\* An invocation of mapSupabaseUser: its argument, what its lookup gave, what
\* it returned.
MapEntry(user, res, out) ==
    [called |-> TRUE, user |-> user, res |-> res, ret |-> out]

(* ------------------------------- state -------------------------------- *)

Identity(id, email, fullName, avatar, t) ==
    [id |-> id, email |-> email, full_name |-> fullName, avatar_url |-> avatar,
     created_at |-> Some(t)]

FullRow ==
    [email |-> Some(EmailB), name |-> Some(<< >>), role |-> Some("ADMIN"),
     created_at |-> Some(0), photo_url |-> None, is_active |-> Some(FALSE),
     subscription_end |-> Some(0), last_login |-> Some(0)]

\* The provider accounts and profile rows the service starts on: a row made
\* before its account signs up, a row with every column set, a row of nulls.
InitWorlds ==
    { [accounts |-> ("u2" :> Identity("u2", Some(EmailB), None, None, 0)),
       store |-> ("u1" :> [FullRow EXCEPT !.email = Some(EmailA), !.name = Some(NameN),
                                         !.last_login = None])],
      [accounts |-> ("u2" :> Identity("u2", Some(EmailB), None, None, 0)),
       store |-> ("u2" :> FullRow)],
      [accounts |-> ("u2" :> Identity("u2", None, Some(NameB), Some(Photo), 0)),
       store |-> ("u2" :> NullRow)] }

Init ==
    /\ now = 0
    /\ \E w \in InitWorlds : accounts = w.accounts /\ store = w.store
    /\ session = None
    /\ sub = "none"
    /\ initq = [pc |-> "idle", user |-> None, ver |-> 0]
    /\ handlers = {}
    /\ events = << >>
    /\ cbLog = << >>
    /\ op = Idle
    /\ calls = 0
    /\ seen = [i \in Ids |-> None]
    /\ mapped = NoMap
    /\ upserted = NoUpsert
    /\ last = NoResult

SessionUser == IF session = None THEN None ELSE Some(accounts[Get(session)])

\* The clock advances.
Tick ==
    /\ now < MaxTime
    /\ now' = now + 1
    /\ mapped' = NoMap /\ upserted' = NoUpsert /\ last' = NoResult
    /\ UNCHANGED <<accounts, session, store, sub, initq, handlers, events, cbLog,
                   op, calls, seen>>

(* ---------------------------- onAuthChange ---------------------------- *)

EventKinds == {"SIGNED_IN", "TOKEN_REFRESHED", "SIGNED_OUT", "USER_UPDATED"}

\* callback(val), by the initial query (src 0) or the handler of event src; ver
\* is the number of events that had been delivered when the session the value
\* comes from was read. The log keeps of val whether it is null and whose it is.
Invoke(log, val, src, ver) ==
    Append(log, [ver |-> ver, src |-> src,
                 uid |-> IF val = None THEN None ELSE Some(Get(val).id),
                 unsub |-> sub = "unsubscribed"])

\* The operations called and the events delivered, which MaxWork bounds.
Work == calls + Len(events)

CanNotify == sub = "active" => Work < MaxWork

\* Dispatch with a plain else in place of the test for SIGNED_OUT: every event
\* that is no sign-in and no token refresh calls callback(null).
DispatchElseNull(kind, sess) ==
    IF sub # "active"
    THEN /\ mapped' = NoMap
         /\ UNCHANGED <<events, handlers, cbLog>>
    ELSE LET ev == Len(events) + 1 IN
         /\ events' = Append(events, [kind |-> kind, sess |-> sess, was |-> session])
         /\ IF kind \in {"SIGNED_IN", "TOKEN_REFRESHED"}
            THEN IF sess = None
                 THEN LET out == mapSupabaseUser(None, NoLookup, now) IN
                      /\ mapped' = MapEntry(None, NoLookup, out)
                      /\ handlers' = handlers
                      /\ cbLog' = IF out.raised THEN cbLog
                                  ELSE Invoke(cbLog, out.value, ev, ev)
                 ELSE /\ mapped' = NoMap
                      /\ handlers' = handlers \cup
                            {[pc |-> "lookup", ev |-> ev, user |-> None,
                              ident |-> Get(sess)]}
                      /\ cbLog' = cbLog
            ELSE /\ mapped' = NoMap
                 /\ handlers' = handlers
                 /\ cbLog' = Invoke(cbLog, None, ev, ev)

\* The provider reports an event, with the session's user sess, to the
\* subscription if it is active: the handler runs to its first await on the
\* store, or to its end.
Dispatch(kind, sess) ==
    IF sub # "active"
    THEN /\ mapped' = NoMap
         /\ UNCHANGED <<events, handlers, cbLog>>
    ELSE LET ev == Len(events) + 1 IN
         /\ events' = Append(events, [kind |-> kind, sess |-> sess, was |-> session])
         /\ IF kind \in {"SIGNED_IN", "TOKEN_REFRESHED"}
            THEN IF sess = None
                 THEN LET out == mapSupabaseUser(None, NoLookup, now) IN
                      /\ mapped' = MapEntry(None, NoLookup, out)
                      /\ handlers' = handlers
                      /\ cbLog' = IF out.raised THEN cbLog
                                  ELSE Invoke(cbLog, out.value, ev, ev)
                 ELSE /\ mapped' = NoMap
                      /\ handlers' = handlers \cup
                            {[pc |-> "lookup", ev |-> ev, user |-> None,
                              ident |-> Get(sess)]}
                      /\ cbLog' = cbLog
            ELSE IF kind = "SIGNED_OUT"
                 THEN /\ mapped' = NoMap
                      /\ handlers' = handlers
                      /\ cbLog' = Invoke(cbLog, None, ev, ev)
                 ELSE /\ mapped' = NoMap
                      /\ UNCHANGED <<handlers, cbLog>>

\* onAuthChange(callback): the initial query is started, the handler subscribed.
OnAuthChange ==
    /\ sub = "none"
    /\ Work < MaxWork
    /\ calls' = calls + 1
    /\ sub' = "active"
    /\ initq' = [pc |-> "getUser", user |-> None, ver |-> 0]
    /\ mapped' = NoMap /\ upserted' = NoUpsert /\ last' = NoResult
    /\ UNCHANGED <<now, accounts, session, store, handlers, events, cbLog, op, seen>>

\* getCurrentUser() of the initial query: supabase.auth.getUser() resolves. With
\* no user (none signed in, an error, a rejection caught) null goes to the
\* callback at once.
InitGetUser(outcome) ==
    /\ initq.pc = "getUser"
    /\ IF outcome = "ok" /\ SessionUser # None
       THEN /\ initq' = [pc |-> "lookup", user |-> SessionUser, ver |-> Len(events)]
            /\ mapped' = NoMap
            /\ cbLog' = cbLog
       ELSE LET out == mapSupabaseUser(None, NoLookup, now) IN
            /\ initq' = [pc |-> "done", user |-> None, ver |-> Len(events)]
            /\ mapped' = IF outcome = "throws" THEN NoMap
                         ELSE MapEntry(None, NoLookup, out)
            /\ cbLog' = Invoke(cbLog,
                               IF outcome = "throws" \/ out.raised THEN None
                               ELSE out.value,
                               0, Len(events))
    /\ upserted' = NoUpsert /\ last' = NoResult
    /\ UNCHANGED <<now, accounts, session, store, sub, handlers, events, op, calls,
                   seen>>

\* getCurrentUser() of the initial query: the lookup of mapSupabaseUser
\* resolves, and .then invokes the callback.
InitLookup(outcome) ==
    /\ initq.pc = "lookup"
    /\ LET res == Lookup(store, Get(initq.user).id, outcome)
           out == mapSupabaseUser(initq.user, res, now) IN
       /\ mapped' = MapEntry(initq.user, res, out)
       /\ cbLog' = Invoke(cbLog, IF out.raised THEN None ELSE out.value,
                          0, initq.ver)
    /\ initq' = [initq EXCEPT !.pc = "done"]
    /\ upserted' = NoUpsert /\ last' = NoResult
    /\ UNCHANGED <<now, accounts, session, store, sub, handlers, events, op, calls,
                   seen>>

\* The function onAuthChange returned: subscription.unsubscribe().
Unsubscribe ==
    /\ sub \in {"active", "unsubscribed"}
    /\ sub' = "unsubscribed"
    /\ mapped' = NoMap /\ upserted' = NoUpsert /\ last' = NoResult
    /\ UNCHANGED <<now, accounts, session, store, initq, handlers, events, cbLog,
                   op, calls, seen>>

\* The handler's payload with the role and is_active that signUp writes.
HandlerPayloadAsSignUp(ident, t) ==
    Defined([email |-> ident.email,
             name |-> Or(ident.full_name, LocalPartOpt(ident.email)),
             role |-> Some("MEMBER"),
             photo_url |-> ident.avatar_url,
             is_active |-> Some(TRUE),
             last_login |-> Some(t)])

\* The upsert payload of the handler.
HandlerPayload(ident, t) ==
    Defined([email |-> ident.email,
             name |-> Or(ident.full_name, LocalPartOpt(ident.email)),
             photo_url |-> ident.avatar_url,
             last_login |-> Some(t)])

\* The handler of a SIGNED_IN or TOKEN_REFRESHED event: the lookup of
\* mapSupabaseUser resolves.
HandlerLookup(h, outcome) ==
    /\ h \in handlers
    /\ h.pc = "lookup"
    /\ LET res == Lookup(store, h.ident.id, outcome)
           out == mapSupabaseUser(Some(h.ident), res, now) IN
       /\ mapped' = MapEntry(Some(h.ident), res, out)
       /\ handlers' = IF out.raised THEN handlers \ {h}
                      ELSE (handlers \ {h}) \cup
                           {[h EXCEPT !.pc = "upsert", !.user = out.value]}
    /\ upserted' = NoUpsert /\ last' = NoResult
    /\ UNCHANGED <<now, accounts, session, store, sub, initq, events, cbLog, op,
                   calls, seen>>

\* The handler: the upsert resolves, and the callback is invoked. An upsert
\* that rejects ends the handler, which has no catch.
HandlerUpsert(h, outcome) ==
    /\ h \in handlers
    /\ h.pc = "upsert"
    /\ LET payload == HandlerPayload(h.ident, now) IN
       /\ store' = IF outcome = "ok" THEN Upsert(store, h.ident.id, payload)
                   ELSE store
       /\ upserted' = [ev |-> h.ev, id |-> h.ident.id, payload |-> payload,
                       outcome |-> outcome,
                       passed |-> IF outcome = "throws" THEN None ELSE Some(h.user)]
    /\ handlers' = handlers \ {h}
    /\ cbLog' = IF outcome = "throws" THEN cbLog
                ELSE Invoke(cbLog, h.user, h.ev, h.ev)
    /\ mapped' = NoMap /\ last' = NoResult
    /\ UNCHANGED <<now, accounts, session, sub, initq, events, op, calls, seen>>

\* The provider opens a session by itself: an OAuth redirect that returns.
ProviderSignedIn(id) ==
    /\ CanNotify
    /\ id \in DOMAIN accounts
    /\ session' = Some(id)
    /\ Dispatch("SIGNED_IN", Some(accounts[id]))
    /\ upserted' = NoUpsert /\ last' = NoResult
    /\ UNCHANGED <<now, accounts, store, sub, initq, op, calls, seen>>

\* The provider ends the session by itself (another tab signs out), or tells
\* the subscription of a refreshed token or an updated user.
ProviderEvent(kind) ==
    /\ CanNotify
    /\ kind # "SIGNED_OUT" => sub = "active"
    /\ session' = IF kind = "SIGNED_OUT" THEN None ELSE session
    /\ Dispatch(kind, IF kind = "SIGNED_OUT" THEN None ELSE SessionUser)
    /\ upserted' = NoUpsert /\ last' = NoResult
    /\ UNCHANGED <<now, accounts, store, sub, initq, op, calls, seen>>

(* --------------------------- signUp, signIn --------------------------- *)

\* The id the provider gives the account of an email.
IdOfEmail(email) == IF email = EmailA THEN "u1" ELSE "u2"

AuthOutcomes == {"ok", "error", "throws", "nouser"}

\* What signUp and signIn return: id is the identity's when the provider gave
\* one, wfail whether the operation's store write failed.
AuthResult(name, id, user, error, wfail) ==
    [fn |-> name, id |-> id, user |-> user, error |-> error, wfail |-> wfail]

\* The result of signUp and signIn when the provider gives no user.
AuthFailure(name, outcome) ==
    AuthResult(name, None, None,
               IF outcome = "nouser"
               THEN Some(IF name = "signUp" THEN "Sign up failed" ELSE "Sign in failed")
               ELSE Some("message"),
               FALSE)

\* A facade operation is called: it runs to its first await.
Call(o) ==
    /\ op = Idle
    /\ Work < MaxWork
    /\ op' = o
    /\ calls' = calls + 1
    /\ mapped' = NoMap /\ upserted' = NoUpsert /\ last' = NoResult
    /\ UNCHANGED <<now, accounts, session, store, sub, initq, handlers, events,
                   cbLog, seen>>

CallSignUp(email, nm) ==
    Call([fn |-> "signUp", pc |-> "auth", email |-> email, ident |-> None,
          wfail |-> FALSE, nm |-> nm])

\* supabase.auth.signUp resolves; confirm is whether the provider opens a
\* session at once (no email confirmation).
SignUpAuth(outcome, confirm) ==
    /\ op.fn = "signUp" /\ op.pc = "auth"
    /\ LET id == IdOfEmail(op.email)
           ident == Identity(id, Some(op.email),
                             Or(op.nm, Some(LocalPart(op.email))), None, now) IN
       IF outcome = "ok"
       THEN /\ id \notin DOMAIN accounts
            /\ accounts' = [i \in (DOMAIN accounts) \cup {id} |->
                              IF i = id THEN ident ELSE accounts[i]]
            /\ op' = [op EXCEPT !.pc = "write", !.ident = Some(ident)]
            /\ last' = NoResult
            /\ IF confirm
               THEN /\ CanNotify
                    /\ session' = Some(id)
                    /\ Dispatch("SIGNED_IN", Some(ident))
               ELSE /\ mapped' = NoMap
                    /\ UNCHANGED <<session, events, handlers, cbLog>>
       ELSE /\ ~confirm
            /\ op' = Idle
            /\ last' = AuthFailure("signUp", outcome)
            /\ mapped' = NoMap
            /\ UNCHANGED <<accounts, session, events, handlers, cbLog>>
    /\ upserted' = NoUpsert
    /\ UNCHANGED <<now, store, sub, initq, calls, seen>>

\* The signUp payload with the role ADMIN.
SignUpPayloadAdmin(ident, email, nm, t) ==
    Defined([email |-> ident.email,
             name |-> Or(nm, Some(LocalPart(email))),
             role |-> Some("ADMIN"),
             created_at |-> Some(t),
             is_active |-> Some(TRUE),
             last_login |-> Some(t)])

\* The profile row signUp upserts.
SignUpPayload(ident, email, nm, t) ==
    Defined([email |-> ident.email,
             name |-> Or(nm, Some(LocalPart(email))),
             role |-> Some("MEMBER"),
             created_at |-> Some(t),
             is_active |-> Some(TRUE),
             last_login |-> Some(t)])

\* The store write of signUp and signIn resolves, st being the store once
\* written: the error it returns is not read, a rejection is caught.
AuthWrite(name, outcome, st) ==
    /\ op.fn = name /\ op.pc = "write"
    /\ store' = IF outcome = "ok" THEN st ELSE store
    /\ IF outcome = "throws"
       THEN /\ op' = Idle
            /\ last' = AuthResult(name, Some(Get(op.ident).id), None,
                                  Some("message"), TRUE)
       ELSE /\ op' = [op EXCEPT !.pc = "lookup", !.wfail = (outcome # "ok")]
            /\ last' = NoResult
    /\ mapped' = NoMap /\ upserted' = NoUpsert
    /\ UNCHANGED <<now, accounts, session, sub, initq, handlers, events, cbLog,
                   calls, seen>>

SignUpWrite(outcome) ==
    AuthWrite("signUp", outcome,
              Upsert(store, Get(op.ident).id,
                     SignUpPayload(Get(op.ident), op.email, op.nm, now)))

\* mapSupabaseUser of signUp and signIn resolves, and the operation returns.
AuthLookup(name, outcome) ==
    /\ op.fn = name /\ op.pc = "lookup"
    /\ LET id == Get(op.ident).id
           res == Lookup(store, id, outcome)
           out == mapSupabaseUser(op.ident, res, now) IN
       /\ mapped' = MapEntry(op.ident, res, out)
       /\ last' = IF out.raised
                  THEN AuthResult(name, Some(id), None, Some("message"), op.wfail)
                  ELSE AuthResult(name, Some(id), out.value, None, op.wfail)
    /\ op' = Idle
    /\ upserted' = NoUpsert
    /\ UNCHANGED <<now, accounts, session, store, sub, initq, handlers, events,
                   cbLog, calls, seen>>

SignUpLookup(outcome) == AuthLookup("signUp", outcome)

CallSignIn(email) ==
    Call([fn |-> "signIn", pc |-> "auth", email |-> email, ident |-> None,
          wfail |-> FALSE, nm |-> None])

\* supabase.auth.signInWithPassword resolves.
SignInAuth(outcome) ==
    /\ op.fn = "signIn" /\ op.pc = "auth"
    /\ LET id == IdOfEmail(op.email) IN
       IF outcome = "ok"
       THEN /\ id \in DOMAIN accounts
            /\ accounts[id].email = Some(op.email)
            /\ CanNotify
            /\ op' = [op EXCEPT !.pc = "write", !.ident = Some(accounts[id])]
            /\ last' = NoResult
            /\ session' = Some(id)
            /\ Dispatch("SIGNED_IN", Some(accounts[id]))
       ELSE /\ op' = Idle
            /\ last' = AuthFailure("signIn", outcome)
            /\ mapped' = NoMap
            /\ UNCHANGED <<session, events, handlers, cbLog>>
    /\ upserted' = NoUpsert
    /\ UNCHANGED <<now, accounts, store, sub, initq, calls, seen>>

SignInWrite(outcome) ==
    AuthWrite("signIn", outcome,
              Update(store, Get(op.ident).id, [last_login |-> Some(now)]))

SignInLookup(outcome) == AuthLookup("signIn", outcome)

(* ------------------ signInWithGoogle, signOut, getSession ------------- *)

ProviderOutcomes == {"ok", "error", "throws"}

CallSignInWithGoogle == Call([fn |-> "signInWithGoogle", pc |-> "auth"])

\* supabase.auth.signInWithOAuth resolves: the redirect is under way, no user yet.
SignInWithGoogleResolve(outcome) ==
    /\ op.fn = "signInWithGoogle"
    /\ op' = Idle
    /\ last' = [fn |-> "signInWithGoogle",
                error |-> IF outcome = "ok" THEN None ELSE Some("message")]
    /\ mapped' = NoMap /\ upserted' = NoUpsert
    /\ UNCHANGED <<now, accounts, session, store, sub, initq, handlers, events,
                   cbLog, calls, seen>>

CallSignOut == Call([fn |-> "signOut", pc |-> "auth"])

\* supabase.auth.signOut resolves.
SignOutResolve(outcome) ==
    /\ op.fn = "signOut"
    /\ op' = Idle
    /\ last' = [fn |-> "signOut",
                error |-> IF outcome = "ok" THEN None ELSE Some("message")]
    /\ IF outcome = "ok"
       THEN /\ CanNotify
            /\ session' = None
            /\ Dispatch("SIGNED_OUT", None)
       ELSE /\ mapped' = NoMap
            /\ UNCHANGED <<session, events, handlers, cbLog>>
    /\ upserted' = NoUpsert
    /\ UNCHANGED <<now, accounts, store, sub, initq, calls, seen>>

CallGetSession == Call([fn |-> "getSession", pc |-> "auth"])

\* supabase.auth.getSession resolves, or rejects and null is returned.
GetSessionResolve(outcome) ==
    /\ op.fn = "getSession"
    /\ op' = Idle
    /\ last' = [fn |-> "getSession",
                sess |-> IF outcome = "ok" THEN session ELSE None]
    /\ mapped' = NoMap /\ upserted' = NoUpsert
    /\ UNCHANGED <<now, accounts, session, store, sub, initq, handlers, events,
                   cbLog, calls, seen>>

(* --------------------------- getCurrentUser --------------------------- *)

CallGetCurrentUser ==
    Call([fn |-> "getCurrentUser", pc |-> "getUser", user |-> None])

\* supabase.auth.getUser resolves, or rejects and null is returned.
GetCurrentUserGetUser(outcome) ==
    /\ op.fn = "getCurrentUser" /\ op.pc = "getUser"
    /\ IF outcome = "ok" /\ SessionUser # None
       THEN /\ op' = [op EXCEPT !.pc = "lookup", !.user = SessionUser]
            /\ mapped' = NoMap
            /\ last' = NoResult
       ELSE LET out == mapSupabaseUser(None, NoLookup, now) IN
            /\ op' = Idle
            /\ mapped' = IF outcome = "throws" THEN NoMap
                         ELSE MapEntry(None, NoLookup, out)
            /\ last' = [fn |-> "getCurrentUser",
                        user |-> IF outcome = "throws" \/ out.raised THEN None
                                 ELSE out.value]
    /\ upserted' = NoUpsert
    /\ UNCHANGED <<now, accounts, session, store, sub, initq, handlers, events,
                   cbLog, calls, seen>>

\* The lookup of mapSupabaseUser resolves.
GetCurrentUserLookup(outcome) ==
    /\ op.fn = "getCurrentUser" /\ op.pc = "lookup"
    /\ LET res == Lookup(store, Get(op.user).id, outcome)
           out == mapSupabaseUser(op.user, res, now) IN
       /\ mapped' = MapEntry(op.user, res, out)
       /\ last' = [fn |-> "getCurrentUser",
                   user |-> IF out.raised THEN None ELSE out.value]
    /\ op' = Idle
    /\ upserted' = NoUpsert
    /\ UNCHANGED <<now, accounts, session, store, sub, initq, handlers, events,
                   cbLog, calls, seen>>

(* -------------------------- updateUserProfile ------------------------- *)

\* The partial LocalUsers updateUserProfile is called with.
UpdateInputs ==
    { << >>,
      [name |-> NameN],
      [role |-> "ADMIN"],
      [role |-> "MEMBER", isActive |-> FALSE],
      [photoURL |-> Photo, subscriptionEnd |-> 1],
      [email |-> EmailA, name |-> << >>, lastLogin |-> 1] }

\* updateData built without the tests for undefined: all five columns, null
\* for a field the input does not have.
BuildUpdateDataAllColumns(updates) ==
    LET F == DOMAIN updates IN
    [name |-> IF "name" \in F THEN Some(updates.name) ELSE None,
     role |-> IF "role" \in F THEN Some(updates.role) ELSE None,
     photo_url |-> IF "photoURL" \in F THEN Some(updates.photoURL) ELSE None,
     is_active |-> IF "isActive" \in F THEN Some(updates.isActive) ELSE None,
     subscription_end |-> IF "subscriptionEnd" \in F
                          THEN Some(updates.subscriptionEnd) ELSE None]

\* updateData: a column for each of the five fields that is not undefined.
BuildUpdateData(updates) ==
    LET F == DOMAIN updates IN
    Defined([name |-> IF "name" \in F THEN Some(updates.name) ELSE None,
             role |-> IF "role" \in F THEN Some(updates.role) ELSE None,
             photo_url |-> IF "photoURL" \in F THEN Some(updates.photoURL) ELSE None,
             is_active |-> IF "isActive" \in F THEN Some(updates.isActive) ELSE None,
             subscription_end |-> IF "subscriptionEnd" \in F
                                  THEN Some(updates.subscriptionEnd) ELSE None])

CallUpdateUserProfile(id, updates) ==
    Call([fn |-> "updateUserProfile", pc |-> "write", id |-> id,
          updates |-> updates])

\* The update resolves: false for an error returned and for a rejection caught.
UpdateUserProfileResolve(outcome) ==
    /\ op.fn = "updateUserProfile"
    /\ LET payload == BuildUpdateData(op.updates) IN
       /\ store' = IF outcome = "ok" THEN Update(store, op.id, payload) ELSE store
       /\ last' = [fn |-> "updateUserProfile", id |-> op.id,
                   payload |-> payload, outcome |-> outcome,
                   updates |-> op.updates, result |-> (outcome = "ok")]
    /\ op' = Idle
    /\ mapped' = NoMap /\ upserted' = NoUpsert
    /\ UNCHANGED <<now, accounts, session, sub, initq, handlers, events, cbLog,
                   calls, seen>>

(* ------------------------- isAdmin, getUserById ----------------------- *)

CallIsAdmin(id) == Call([fn |-> "isAdmin", pc |-> "lookup", id |-> id])

\* What isAdmin returns for what its lookup gave.
IsAdminResult(res) ==
    res.status = "found" /\ Get(res.profile).role = Some("ADMIN")

\* The lookup resolves.
IsAdminResolve(outcome) ==
    /\ op.fn = "isAdmin"
    /\ last' = [fn |-> "isAdmin", id |-> op.id,
                result |-> IsAdminResult(Lookup(store, op.id, outcome))]
    /\ op' = Idle
    /\ mapped' = NoMap /\ upserted' = NoUpsert
    /\ UNCHANGED <<now, accounts, session, store, sub, initq, handlers, events,
                   cbLog, calls, seen>>

\* getUserById giving lastLogin the default mapSupabaseUser gives it: the
\* present time when the row has none.
GetUserByIdResultStamped(id, data) ==
    [id |-> id,
     email |-> data.email,
     name |-> data.name,
     photoURL |-> data.photo_url,
     role |-> Get(OrElse(data.role, Some("MEMBER"))),
     isActive |-> IF data.is_active = None THEN TRUE ELSE Get(data.is_active),
     subscriptionEnd |-> data.subscription_end,
     createdAt |-> data.created_at,
     lastLogin |-> OrElse(data.last_login, Some(now))]

\* The LocalUser getUserById builds from the row data of id.
GetUserByIdResult(id, data) ==
    [id |-> id,
     email |-> data.email,
     name |-> data.name,
     photoURL |-> data.photo_url,
     role |-> Get(OrElse(data.role, Some("MEMBER"))),
     isActive |-> IF data.is_active = None THEN TRUE ELSE Get(data.is_active),
     subscriptionEnd |-> data.subscription_end,
     createdAt |-> data.created_at,
     lastLogin |-> data.last_login]

CallGetUserById(id) == Call([fn |-> "getUserById", pc |-> "lookup", id |-> id])

\* The lookup resolves. prev is what the last getUserById of this id whose
\* lookup returned no error read (the row, none when absent) and returned.
GetUserByIdResolve(outcome) ==
    /\ op.fn = "getUserById"
    /\ LET res == Lookup(store, op.id, outcome)
           result == IF res.status = "found"
                     THEN Some(GetUserByIdResult(op.id, Get(res.profile)))
                     ELSE None IN
       /\ last' = [fn |-> "getUserById", id |-> op.id, status |-> res.status,
                   result |-> result, row |-> res.profile, prev |-> seen[op.id]]
       /\ seen' = IF res.status \in {"found", "absent"}
                  THEN [seen EXCEPT ![op.id] = Some([result |-> result,
                                                     row |-> res.profile])]
                  ELSE seen
    /\ op' = Idle
    /\ mapped' = NoMap /\ upserted' = NoUpsert
    /\ UNCHANGED <<now, accounts, session, store, sub, initq, handlers, events,
                   cbLog, calls>>

(* ---------------------------- specification --------------------------- *)

\* onAuthChange: the initial query, the events and their handlers.
SubNext ==
    \/ Tick
    \/ OnAuthChange
    \/ \E o \in ProviderOutcomes : InitGetUser(o)
    \/ \E o \in StoreOutcomes : InitLookup(o)
    \/ Unsubscribe
    \/ \E id \in Ids : ProviderSignedIn(id)
    \/ \E k \in EventKinds \ {"SIGNED_IN"} : ProviderEvent(k)
    \/ \E h \in handlers, o \in StoreOutcomes : HandlerLookup(h, o)
    \/ \E h \in handlers, o \in StoreOutcomes : HandlerUpsert(h, o)

\* The facade operations a caller awaits.
FacadeNext ==
    \/ Tick
    \/ \E id \in Ids : ProviderSignedIn(id)
    \/ ProviderEvent("SIGNED_OUT")
    \/ \E nm \in {None, Some(NameN)} : CallSignUp(EmailA, nm)
    \/ \E o \in AuthOutcomes, c \in BOOLEAN : SignUpAuth(o, c)
    \/ \E o \in StoreOutcomes : SignUpWrite(o)
    \/ \E o \in StoreOutcomes : SignUpLookup(o)
    \/ \E e \in {EmailA, EmailB} : CallSignIn(e)
    \/ \E o \in AuthOutcomes : SignInAuth(o)
    \/ \E o \in StoreOutcomes : SignInWrite(o)
    \/ \E o \in StoreOutcomes : SignInLookup(o)
    \/ CallSignInWithGoogle
    \/ \E o \in ProviderOutcomes : SignInWithGoogleResolve(o)
    \/ CallSignOut
    \/ \E o \in ProviderOutcomes : SignOutResolve(o)
    \/ CallGetSession
    \/ \E o \in ProviderOutcomes : GetSessionResolve(o)
    \/ CallGetCurrentUser
    \/ \E o \in ProviderOutcomes : GetCurrentUserGetUser(o)
    \/ \E o \in StoreOutcomes : GetCurrentUserLookup(o)
    \/ \E id \in Ids, u \in UpdateInputs : CallUpdateUserProfile(id, u)
    \/ \E o \in StoreOutcomes : UpdateUserProfileResolve(o)
    \/ \E id \in Ids : CallIsAdmin(id)
    \/ \E o \in StoreOutcomes : IsAdminResolve(o)
    \/ \E id \in Ids : CallGetUserById(id)
    \/ \E o \in StoreOutcomes : GetUserByIdResolve(o)

\* Everything: the facade operations while a subscription runs.
Next ==
    \/ FacadeNext
    \/ OnAuthChange
    \/ \E o \in ProviderOutcomes : InitGetUser(o)
    \/ \E o \in StoreOutcomes : InitLookup(o)
    \/ Unsubscribe
    \/ \E k \in {"TOKEN_REFRESHED", "USER_UPDATED"} : ProviderEvent(k)
    \/ \E h \in handlers, o \in StoreOutcomes : HandlerLookup(h, o)
    \/ \E h \in handlers, o \in StoreOutcomes : HandlerUpsert(h, o)

Spec == Init /\ [][Next]_vars

\* onAuthChange with no facade operation called beside it.
SpecSub == Init /\ [][SubNext]_vars

\* The facade operations with no subscription.
SpecFacade == Init /\ [][FacadeNext]_vars

(* ----------------------------- properties ----------------------------- *)

\* C1: once the function onAuthChange returned has been called, the callback
\* is not invoked again: no invocation, by the initial query or by a handler
\* that was waiting for the store, happens while the subscription is ended.
NoCallbackAfterUnsubscribe ==
    \A i \in 1..Len(cbLog) : ~cbLog[i].unsub

\* C2: the callback is never given the result of an older reading of the
\* session after the result of a newer one: the versions of the session that
\* the invocations come from never go down along the log.
NewestSessionWins ==
    \A i, j \in 1..Len(cbLog) : i < j => cbLog[i].ver <= cbLog[j].ver

\* C3: mapSupabaseUser never rejects; for null it returns null; for an
\* identity it returns a LocalUser of that identity whatever its lookup gave
\* (found, absent, error, throws), with role MEMBER and isActive true whenever
\* the lookup gave no profile.
ReconcileNeverFails ==
    mapped.called =>
        /\ ~mapped.ret.raised
        /\ mapped.user = None => mapped.ret.value = None
        /\ mapped.user # None =>
              /\ mapped.ret.value # None
              /\ Get(mapped.ret.value).id = Get(mapped.user).id
              /\ mapped.res.status # "found" =>
                    /\ Get(mapped.ret.value).role = "MEMBER"
                    /\ Get(mapped.ret.value).isActive = TRUE

\* mapSupabaseUser returned a LocalUser although its lookup threw.
ReconcileAfterThrow ==
    /\ mapped.called
    /\ mapped.user # None
    /\ mapped.res.status = "throws"
    /\ mapped.ret.value # None
    /\ Get(mapped.ret.value).role = "MEMBER"

\* The invocations of the callback made for event k.
EventEntries(k) == {i \in 1..Len(cbLog) : cbLog[i].src = k}

\* C4: each SIGNED_OUT event delivered to the subscription has exactly one
\* invocation of the callback, with null, whatever the session was before;
\* an event that is no SIGNED_IN, TOKEN_REFRESHED or SIGNED_OUT has none.
SignedOutNotifiesOnce ==
    \A k \in 1..Len(events) :
        /\ events[k].kind = "SIGNED_OUT" =>
              /\ Cardinality(EventEntries(k)) = 1
              /\ \A i \in EventEntries(k) : cbLog[i].uid = None
        /\ events[k].kind \notin {"SIGNED_IN", "TOKEN_REFRESHED", "SIGNED_OUT"} =>
              EventEntries(k) = {}

\* A SIGNED_OUT event ended a session and null went to the callback, after
\* the initial query had given it the user.
SignedOutAfterSession ==
    \E k \in 1..Len(events) :
        /\ events[k].kind = "SIGNED_OUT"
        /\ events[k].was # None
        /\ cbLog[1].uid # None
        /\ \E i \in EventEntries(k) : cbLog[i].uid = None /\ i > 1

\* The step of the handler h in which its upsert resolves.
HandlerUpsertStep(h) ==
    LET id == h.ident.id
        p == upserted'.payload
        wanted == [email |-> h.ident.email,
                   name |-> IF Truthy(h.ident.full_name) THEN h.ident.full_name
                            ELSE LocalPartOpt(h.ident.email),
                   photo_url |-> h.ident.avatar_url,
                   last_login |-> Some(now)]
    IN /\ upserted'.ev = h.ev
       /\ upserted'.id = id
       /\ DOMAIN p = {c \in DOMAIN wanted : wanted[c] # None}
       /\ \A c \in DOMAIN p : p[c] = wanted[c]
       /\ \A i \in DOMAIN store : i \in DOMAIN store'
       /\ \A i \in DOMAIN store \ {id} : store'[i] = store[i]
       /\ id \in DOMAIN store =>
             \A c \in Columns \ {"email", "name", "photo_url", "last_login"} :
                 store'[id][c] = store[id][c]
       /\ upserted'.outcome = "ok" =>
             /\ id \in DOMAIN store'
             /\ \A c \in DOMAIN p : store'[id][c] = p[c]
       /\ upserted'.outcome # "throws" =>
             /\ h.user # None
             /\ Get(h.user).id = id
             /\ upserted'.passed = Some(h.user)
             /\ Len(cbLog') = Len(cbLog) + 1
             /\ cbLog'[Len(cbLog')].uid = Some(id)
             /\ cbLog'[Len(cbLog')].src = h.ev

\* The step of the handler h in which the lookup of mapSupabaseUser resolves.
HandlerLookupStep(h) ==
    /\ mapped'.called
    /\ mapped'.user = Some(h.ident)
    /\ mapped'.ret.value # None
    /\ \E g \in handlers' :
          /\ g.ev = h.ev
          /\ g.pc = "upsert"
          /\ g.ident = h.ident
          /\ g.user = mapped'.ret.value

WriteFailuresReported ==
    /\ (last.fn \in {"signUp", "signIn"} /\ last.wfail) => last.error # None
    /\ (last.fn = "updateUserProfile" /\ last.outcome # "ok") =>
          last.result = FALSE
    /\ (last.fn = "signUp" /\ last.user # None /\ last.error = None) =>
          Get(last.user).id \in DOMAIN store

\* The field of the partial LocalUser that each column updateUserProfile
\* writes comes from.
UpdateField ==
    [name |-> "name", role |-> "role", photo_url |-> "photoURL",
     is_active |-> "isActive", subscription_end |-> "subscriptionEnd"]

\* C7: the payload updateUserProfile sends has exactly the columns of the
\* fields present in updates among name, photoURL, role, isActive and
\* subscriptionEnd, with their values; the result is false when the update
\* fails, by an error or by throwing; no row is made, the other rows and the
\* columns of the row that are not in the payload are as before.
UpdateWritesOnlyGivenFields ==
    [][(op.fn = "updateUserProfile" /\ op' = Idle) =>
          LET u == op.updates
              id == op.id
              p == last'.payload
          IN /\ last'.fn = "updateUserProfile"
             /\ DOMAIN p = {c \in DOMAIN UpdateField : UpdateField[c] \in DOMAIN u}
             /\ \A c \in DOMAIN p : p[c] = Some(u[UpdateField[c]])
             /\ last'.result \in BOOLEAN
             /\ last'.result = (last'.outcome = "ok")
             /\ DOMAIN store' = DOMAIN store
             /\ \A i \in DOMAIN store \ {id} : store'[i] = store[i]
             /\ id \in DOMAIN store =>
                   \A c \in Columns :
                       store'[id][c] = IF c \in DOMAIN p /\ last'.outcome = "ok"
                                       THEN p[c] ELSE store[id][c]]_vars

\* updateUserProfile(id, {name: "N"}) returned true: the payload is the name
\* alone, the row has it and its role and is_active are those it had.
UpdatedNameOnly ==
    /\ last.fn = "updateUserProfile"
    /\ DOMAIN last.updates = {"name"}
    /\ last.updates.name = NameN
    /\ DOMAIN last.payload = {"name"}
    /\ last.payload.name = Some(NameN)
    /\ last.result = TRUE
    /\ last.id \in DOMAIN store
    /\ store[last.id].name = Some(NameN)
    /\ store[last.id].role = Some("ADMIN")
    /\ store[last.id].is_active = Some(FALSE)
    /\ store[last.id].email = Some(EmailB)

ReadOps == {"getCurrentUser", "getUserById", "isAdmin", "getSession"}

\* C8: a step of getCurrentUser, getUserById, isAdmin or getSession, and a
\* step in which mapSupabaseUser returns, leaves the store as it was, no row
\* made for a profile that is absent; and a getUserById reading from the
\* store what the getUserById of that id before it read returns the same.
ReadPathsLeaveStore ==
    [][/\ (op.fn \in ReadOps /\ op' # op) => store' = store
       /\ mapped'.called => store' = store
       /\ (/\ last'.fn = "getUserById"
           /\ last'.status \in {"found", "absent"}
           /\ last'.prev # None
           /\ Get(last'.prev).row = last'.row)
          => last'.result = Get(last'.prev).result]_vars

\* getUserById returned for the second time, later, a user of the same row,
\* a row with no last_login.
GetUserByIdTwice ==
    /\ last.fn = "getUserById"
    /\ last.status = "found"
    /\ last.prev # None
    /\ Get(last.prev).row = last.row
    /\ Get(last.row).last_login = None
    /\ last.result = Get(last.prev).result
    /\ now > 0

\* C9: the name mapSupabaseUser gives is the first non-empty of the stored
\* profile's name, the metadata full name, the local part of the email,
\* and the empty string.
NameFallbackChain ==
    (mapped.called /\ mapped.user # None) =>
        LET u == Get(mapped.user)
            stored == IF mapped.res.status = "found"
                      THEN Get(mapped.res.profile).name ELSE None
            wanted == IF Truthy(stored) THEN stored
                      ELSE IF Truthy(u.full_name) THEN u.full_name
                      ELSE IF Truthy(LocalPartOpt(u.email)) THEN LocalPartOpt(u.email)
                      ELSE Some(<< >>)
        IN /\ mapped.ret.value # None
           /\ Get(mapped.ret.value).name = wanted

\* The role of a row is ADMIN.
IsAdminRow(st, id) == id \in DOMAIN st /\ st[id].role = Some("ADMIN")

\* C10: a row comes to have the role ADMIN only in the step in which an
\* updateUserProfile of that id with role ADMIN in its updates resolves, and
\* isAdmin returns true only for a row whose role is ADMIN.
AdminOnlyByUpdate ==
    [][/\ \A id \in Ids :
            (IsAdminRow(store', id) /\ ~IsAdminRow(store, id)) =>
                /\ op.fn = "updateUserProfile"
                /\ op' = Idle
                /\ op.id = id
                /\ "role" \in DOMAIN op.updates
                /\ op.updates.role = "ADMIN"
       /\ (last'.fn = "isAdmin" /\ last'.result) =>
             IsAdminRow(store', last'.id)]_vars

\* isAdmin returned true for a row that updateUserProfile made ADMIN: a row
\* that had no role before.
AdminAfterUpdate ==
    /\ last.fn = "isAdmin"
    /\ last.result
    /\ last.id \in DOMAIN store
    /\ store[last.id].role = Some("ADMIN")
    /\ store[last.id].created_at = None

====
